---------------------------- MODULE Spec2Model ----------------------------
(***************************************************************************)
(* A model of dnsfs: a file served over DNS TXT records.                   *)
(*   src/dnsfs_server.py  dns_fs_resolver.resolve and its helpers          *)
(*   src/dnsfs_client.py  queryt, parse_meta, fetchf                       *)
(*                                                                         *)
(* Text (Python str) is a sequence of one-character strings, bytes is a    *)
(* sequence of integers 0..255.                                            *)
(***************************************************************************)
EXTENDS Integers, Sequences, FiniteSets, TLC

(***************************************************************************)
(* Bounds of the model.                                                    *)
(***************************************************************************)
\* Stored files of every length 0..MaxSmallLen over ByteVals are enumerated.
MaxSmallLen == 3
\* Long stored files fill 1..MaxFullChunks whole chunks, one byte less, or one more.
MaxFullChunks == 2
\* Long stored files are generated from the seeds 0..MaxSeed.
MaxSeed == 1
\* Replies per fetch that a faulty transport loses or forges.
MaxFaults == 1
\* Changes of the storage while one fetch runs.
MaxChanges == 2
\* Threads of the server that run resolve at the same time.
MaxThreads == 2
\* Raw names of every length 0..MaxRawLen over RawChars are sanitized.
MaxRawLen == 3

(***************************************************************************)
(* Program constants.                                                      *)
(***************************************************************************)
CHUNK_CHARS == 180

\* ZONE of the server, "lab."
ZONE == <<"l", "a", "b", ".">>

\* ZONE of the client, "lab"
CLIENT_ZONE == <<"l", "a", "b">>

\* TXT("dnsfs-lab: use meta.<name>.lab")
WELCOME ==
  <<"d","n","s","f","s","-","l","a","b",":"," ","u","s","e"," ",
    "m","e","t","a",".","<","n","a","m","e",">",".","l","a","b">>

(***************************************************************************)
(* Python's str and list primitives the program uses.                      *)
(***************************************************************************)
Min(a, b) == IF a < b THEN a ELSE b

\* s[a:b] for 0 <= a, 0 <= b (0-based, end exclusive, clipped to the length)
Slice(s, a, b) == SubSeq(s, a + 1, Min(b, Len(s)))

\* "".join(c for c in s if P(c)), shared by every character filter
RECURSIVE SelectChars(_, _)
SelectChars(s, keep) ==
  IF s = <<>> THEN <<>>
  ELSE (IF Head(s) \in keep THEN <<Head(s)>> ELSE <<>>) \o SelectChars(Tail(s), keep)

UPPER == <<"A","B","C","D","E","F","G","H","I","J","K","L","M",
           "N","O","P","Q","R","S","T","U","V","W","X","Y","Z">>

LOWER == <<"a","b","c","d","e","f","g","h","i","j","k","l","m",
           "n","o","p","q","r","s","t","u","v","w","x","y","z">>

DIGITS == <<"0","1","2","3","4","5","6","7","8","9">>

Range(f) == {f[i] : i \in DOMAIN f}

LowerChar(c) ==
  IF c \in Range(UPPER) THEN LOWER[CHOOSE i \in 1..26 : UPPER[i] = c] ELSE c

\* str.lower()
StrLower(s) == [i \in 1..Len(s) |-> LowerChar(s[i])]

\* s.endswith(suffix)
EndsWith(s, suffix) ==
  /\ Len(suffix) <= Len(s)
  /\ SubSeq(s, Len(s) - Len(suffix) + 1, Len(s)) = suffix

\* s.startswith(prefix)
StartsWith(s, prefix) ==
  /\ Len(prefix) <= Len(s)
  /\ SubSeq(s, 1, Len(prefix)) = prefix

\* s.strip(chars): every leading and trailing character of the set is removed
StripChars(s, chars) ==
  LET n     == Len(s)
      lead  == CHOOSE i \in 0..n :
                 /\ \A j \in 1..i : s[j] \in chars
                 /\ (i = n \/ s[i + 1] \notin chars)
      trail == CHOOSE i \in 0..n :
                 /\ \A j \in (n - i + 1)..n : s[j] \in chars
                 /\ (i = n \/ s[n - i] \notin chars)
  IN  IF lead = n THEN <<>> ELSE SubSeq(s, lead + 1, n - trail)

\* s.split(sep) for a one-character separator: always at least one part
RECURSIVE SplitOn(_, _)
SplitOn(s, sep) ==
  LET hits == {i \in 1..Len(s) : s[i] = sep}
  IN  IF hits = {} THEN <<s>>
      ELSE LET k == CHOOSE i \in hits : \A j \in hits : i <= j
           IN  <<SubSeq(s, 1, k - 1)>> \o SplitOn(SubSeq(s, k + 1, Len(s)), sep)

\* "".join(parts)
RECURSIVE Join(_)
Join(parts) ==
  IF parts = <<>> THEN <<>> ELSE Head(parts) \o Join(Tail(parts))

\* str(n) for an integer n
RECURSIVE NatStr(_)
NatStr(n) ==
  IF n < 10 THEN <<DIGITS[n + 1]>> ELSE NatStr(n \div 10) \o <<DIGITS[(n % 10) + 1]>>

IntStr(n) == IF n < 0 THEN <<"-">> \o NatStr(0 - n) ELSE NatStr(n)


\* The characters str.strip() and int() treat as white space (those the model uses)
WHITESPACE == {" ", "\t", "\n"}

ValueError == [ok |-> FALSE, val |-> 0]

\* The value of a string of decimal digits, single underscores allowed between digits
RECURSIVE DigitsValue(_, _)
DigitsValue(s, acc) ==
  IF s = <<>> THEN acc
  ELSE IF Head(s) = "_" THEN DigitsValue(Tail(s), acc)
  ELSE DigitsValue(Tail(s), 10 * acc + ((CHOOSE i \in 1..10 : DIGITS[i] = Head(s)) - 1))

\* int(s): white space around, an optional sign, then digits with single
\* underscores between them; anything else raises ValueError
PyInt(s) ==
  LET t    == StripChars(s, WHITESPACE)
      sign == IF t # <<>> /\ Head(t) \in {"+", "-"} THEN Head(t) ELSE ""
      body == IF sign = "" THEN t ELSE Tail(t)
      wellFormed ==
        /\ body # <<>>
        /\ \A i \in 1..Len(body) : body[i] \in Range(DIGITS) \cup {"_"}
        /\ body[1] # "_"
        /\ body[Len(body)] # "_"
        /\ \A i \in 1..(Len(body) - 1) : ~(body[i] = "_" /\ body[i + 1] = "_")
  IN  IF wellFormed
      THEN [ok |-> TRUE,
            val |-> IF sign = "-" THEN 0 - DigitsValue(body, 0) ELSE DigitsValue(body, 0)]
      ELSE ValueError

(***************************************************************************)
(* base64 (the standard alphabet, "=" padding), as base64.b64encode and    *)
(* the non-validating base64.b64decode compute it.                         *)
(***************************************************************************)
B64 == UPPER \o LOWER \o DIGITS \o <<"+", "/">>

B64Value(c) == (CHOOSE i \in 1..64 : B64[i] = c) - 1

Pow64(k) == IF k = 0 THEN 1 ELSE IF k = 1 THEN 64 ELSE IF k = 2 THEN 4096 ELSE 262144

\* base64.b64encode(data).decode("ascii")
b64encode(data) ==
  LET n      == Len(data)
      byte(j) == IF j <= n THEN data[j] ELSE 0
      group(g) == byte(3 * g + 1) * 65536 + byte(3 * g + 2) * 256 + byte(3 * g + 3)
  IN  [i \in 1..(4 * ((n + 2) \div 3)) |->
         LET g == (i - 1) \div 4
             k == (i - 1) % 4
         IN  IF k = 2 /\ 3 * g + 2 > n THEN "="
             ELSE IF k = 3 /\ 3 * g + 3 > n THEN "="
             ELSE B64[((group(g) \div Pow64(3 - k)) % 64) + 1]]

BinasciiError == [ok |-> FALSE, data |-> <<>>]

\* One turn of binascii.a2b_base64's loop (strict_mode off) on the character ch:
\* a character outside the alphabet is skipped, a pad that completes the quad
\* ends the parse (goto done), a data character fills the quad
a2b_step(st, ch) ==
  IF ch = "="
  THEN IF st.quad_pos >= 2 /\ st.quad_pos + st.pads + 1 >= 4
       THEN [st EXCEPT !.done = TRUE]
       ELSE IF st.quad_pos >= 2 THEN [st EXCEPT !.pads = st.pads + 1] ELSE st
  ELSE IF ch \notin Range(B64) THEN st
  ELSE LET c == B64Value(ch)
       IN  CASE st.quad_pos = 0 ->
                  [st EXCEPT !.quad_pos = 1, !.leftchar = c, !.pads = 0]
             [] st.quad_pos = 1 ->
                  [st EXCEPT !.quad_pos = 2, !.leftchar = c % 16, !.pads = 0,
                             !.out = Append(st.out, st.leftchar * 4 + c \div 16)]
             [] st.quad_pos = 2 ->
                  [st EXCEPT !.quad_pos = 3, !.leftchar = c % 4, !.pads = 0,
                             !.out = Append(st.out, st.leftchar * 16 + c \div 4)]
             [] st.quad_pos = 3 ->
                  [st EXCEPT !.quad_pos = 0, !.leftchar = 0, !.pads = 0,
                             !.out = Append(st.out, st.leftchar * 64 + c)]

\* The loop over s[lo..hi], left to right, left once the parse is done (halved, to
\* keep the evaluation shallow)
RECURSIVE a2b_loop(_, _, _, _)
a2b_loop(s, lo, hi, st) ==
  IF st.done \/ lo > hi THEN st
  ELSE IF lo = hi THEN a2b_step(st, s[lo])
  ELSE LET mid == (lo + hi) \div 2
       IN  a2b_loop(s, mid + 1, hi, a2b_loop(s, lo, mid, st))

\* binascii.a2b_base64: an incomplete last quad raises binascii.Error
a2b_base64(s) ==
  LET st == a2b_loop(s, 1, Len(s),
                     [quad_pos |-> 0, leftchar |-> 0, pads |-> 0, out |-> <<>>, done |-> FALSE])
  IN  IF ~st.done /\ st.quad_pos # 0 THEN BinasciiError
      ELSE [ok |-> TRUE, data |-> st.out]

\* base64.b64decode(text.encode("ascii"))
b64decode(text) == a2b_base64(text)

(***************************************************************************)
(* hashlib.sha256(data).hexdigest(), modelled collision-free: lowercase    *)
(* hexadecimal text, never empty, different for different data.            *)
(***************************************************************************)
HEX == DIGITS \o <<"a", "b", "c", "d", "e", "f">>

sha256_hex(data) ==
  <<"s", "h", "a">> \o [i \in 1..(2 * Len(data)) |->
     LET b == data[(i + 1) \div 2]
     IN  IF i % 2 = 1 THEN HEX[(b \div 16) + 1] ELSE HEX[(b % 16) + 1]]


(***************************************************************************)
(* The server: src/dnsfs_server.py                                         *)
(***************************************************************************)
\* ok = "abcdefghijklmnopqrstuvwxyz0123456789-_"
NAME_OK == Range(LOWER) \cup Range(DIGITS) \cup {"-", "_"}

\* s_name without s = s.lower(): capitals are dropped, not lowered
s_name_NoLower(s) == SelectChars(s, NAME_OK)

s_name(s) == SelectChars(StrLower(s), NAME_OK)

EXT_BIN == <<".", "b", "i", "n">>

EXT_TXT == <<".", "t", "x", "t">>

FileNotFoundError == [found |-> FALSE, data |-> <<>>]

\* f_bytes that returns no bytes, where it should raise, when no candidate is a file
f_bytes_NoRaise(st, name) ==
  LET candidates == <<name, name \o EXT_BIN, name \o EXT_TXT>>
      hits       == {k \in 1..3 : candidates[k] \in DOMAIN st}
  IN  IF hits = {} THEN [found |-> TRUE, data |-> <<>>]
      ELSE [found |-> TRUE,
            data  |-> st[candidates[CHOOSE k \in hits : \A j \in hits : k <= j]]]

\* f_bytes that tries name.txt before name.bin
f_bytes_TxtFirst(st, name) ==
  LET candidates == <<name, name \o EXT_TXT, name \o EXT_BIN>>
      hits       == {k \in 1..3 : candidates[k] \in DOMAIN st}
  IN  IF hits = {} THEN FileNotFoundError
      ELSE [found |-> TRUE,
            data  |-> st[candidates[CHOOSE k \in hits : \A j \in hits : k <= j]]]

\* The storage directory is a function from the names of its regular files to
\* their bytes; the first of name, name.bin, name.txt that is a file is read.
f_bytes(st, name) ==
  LET candidates == <<name, name \o EXT_BIN, name \o EXT_TXT>>
      hits       == {k \in 1..3 : candidates[k] \in DOMAIN st}
  IN  IF hits = {} THEN FileNotFoundError
      ELSE [found |-> TRUE,
            data  |-> st[candidates[CHOOSE k \in hits : \A j \in hits : k <= j]]]

\* range with the stop included: range(0, len(b64) + 1, CHUNK_CHARS)
RECURSIVE PyRange_StopIncluded(_, _, _)
PyRange_StopIncluded(start, stop, step) ==
  IF start > stop THEN <<>> ELSE <<start>> \o PyRange_StopIncluded(start + step, stop, step)

\* list(range(start, stop, step)) for step > 0
RECURSIVE PyRange(_, _, _)
PyRange(start, stop, step) ==
  IF start >= stop THEN <<>> ELSE <<start>> \o PyRange(start + step, stop, step)

\* b64_chunks that keeps whole chunks only: range(0, len(b64) - CHUNK_CHARS + 1, ...)
b64_chunks_WholeOnly(data) ==
  LET b64    == b64encode(data)
      starts == PyRange(0, Len(b64) - CHUNK_CHARS + 1, CHUNK_CHARS)
  IN  [k \in 1..Len(starts) |-> Slice(b64, starts[k], starts[k] + CHUNK_CHARS)]

b64_chunks(data) ==
  LET b64    == b64encode(data)
      starts == PyRange(0, Len(b64), CHUNK_CHARS)
  IN  [k \in 1..Len(starts) |-> Slice(b64, starts[k], starts[k] + CHUNK_CHARS)]

\* A reply with rcode NXDOMAIN and no answer
NXDOMAIN == [rcode |-> "NXDOMAIN", rr |-> <<>>]

\* A reply with rcode NOERROR and one TXT answer
Answer(txt) == [rcode |-> "NOERROR", rr |-> <<txt>>]

\* resolve left by an exception instead of a reply
Raised(exc) == [rcode |-> "RAISED", rr |-> <<>>, exc |-> exc]

META == <<"m", "e", "t", "a">>

CHUNK == <<"c", "h", "u", "n", "k">>

\* MetaText with bytes= set to the length of the base64 text, not of the file
MetaText_B64Len(nchunks, sha, nbytes) ==
  <<"c", "h", "u", "n", "k", "s", "=">> \o IntStr(nchunks) \o <<";", "e", "n", "c", "=", "b", "a", "s", "e", "6", "4", ";", "s", "h", "a", "2", "5", "6", "=">>
    \o sha \o <<";", "b", "y", "t", "e", "s", "=">> \o IntStr(4 * ((nbytes + 2) \div 3))

\* f"chunks={len(chunks)};enc=base64;sha256={sha256_hex(data)};bytes={len(data)}"
MetaText(nchunks, sha, nbytes) ==
  <<"c", "h", "u", "n", "k", "s", "=">> \o IntStr(nchunks) \o <<";", "e", "n", "c", "=", "b", "a", "s", "e", "6", "4", ";", "s", "h", "a", "2", "5", "6", "=">>
    \o sha \o <<";", "b", "y", "t", "e", "s", "=">> \o IntStr(nbytes)

\* meta.<name>.lab
MetaHandler(st, rawName) ==
  LET name == s_name(rawName)
      file == f_bytes(st, name)
  IN  IF ~file.found THEN NXDOMAIN
      ELSE LET chunks == b64_chunks(file.data)
           IN  Answer(MetaText(Len(chunks), sha256_hex(file.data), Len(file.data)))

\* ChunkHandler with the range check idx > len(chunks): chunks[len(chunks)] raises
ChunkHandler_OffByOne(st, indexPart, rawName) ==
  LET name == s_name(rawName)
      idx  == PyInt(Slice(indexPart, 5, Len(indexPart)))
      file == f_bytes(st, name)
  IN  IF ~idx.ok THEN NXDOMAIN
      ELSE IF ~file.found THEN NXDOMAIN
      ELSE LET chunks == b64_chunks(file.data)
           IN  IF idx.val < 0 \/ idx.val > Len(chunks) THEN NXDOMAIN
               ELSE IF idx.val = Len(chunks) THEN Raised("IndexError")
               ELSE Answer(chunks[idx.val + 1])

\* ChunkHandler without the except ValueError around int()
ChunkHandler_NoCatch(st, indexPart, rawName) ==
  LET name == s_name(rawName)
      idx  == PyInt(Slice(indexPart, 5, Len(indexPart)))
      file == f_bytes(st, name)
  IN  IF ~idx.ok THEN Raised("ValueError")
      ELSE IF ~file.found THEN NXDOMAIN
      ELSE LET chunks == b64_chunks(file.data)
           IN  IF idx.val < 0 \/ idx.val >= Len(chunks) THEN NXDOMAIN
               ELSE Answer(chunks[idx.val + 1])

\* ChunkHandler that cuts the chunks one character wider than CHUNK_CHARS
ChunkHandler_Wide(st, indexPart, rawName) ==
  LET name == s_name(rawName)
      idx  == PyInt(Slice(indexPart, 5, Len(indexPart)))
      file == f_bytes(st, name)
  IN  IF ~idx.ok THEN NXDOMAIN
      ELSE IF ~file.found THEN NXDOMAIN
      ELSE LET b64    == b64encode(file.data)
               starts == PyRange(0, Len(b64), CHUNK_CHARS)
           IN  IF idx.val < 0 \/ idx.val >= Len(starts) THEN NXDOMAIN
               ELSE Answer(Slice(b64, starts[idx.val + 1],
                                 starts[idx.val + 1] + CHUNK_CHARS + 1))

\* chunk<N>.<name>.lab
ChunkHandler(st, indexPart, rawName) ==
  LET name == s_name(rawName)
      idx  == PyInt(Slice(indexPart, 5, Len(indexPart)))
      file == f_bytes(st, name)
  IN  IF ~idx.ok THEN NXDOMAIN
      ELSE IF ~file.found THEN NXDOMAIN
      ELSE LET chunks == b64_chunks(file.data)
           IN  IF idx.val < 0 \/ idx.val >= Len(chunks) THEN NXDOMAIN
               ELSE Answer(chunks[idx.val + 1])

\* The paths f_bytes asks the file system about (p.exists()), in order: the
\* candidates up to the first one that is a file
f_bytes_paths(st, name) ==
  LET candidates == <<name, name \o EXT_BIN, name \o EXT_TXT>>
      hits       == {k \in 1..3 : candidates[k] \in DOMAIN st}
  IN  IF hits = {} THEN candidates
      ELSE SubSeq(candidates, 1, CHOOSE k \in hits : \A j \in hits : k <= j)

\* The paths one call of resolve asks the file system about: none unless the
\* call gets to f_bytes (line 77, or line 97 after int() has read the index)
resolve_paths(st, req) ==
  LET qname == StrLower(req.qname)
      label == StripChars(Slice(qname, 0, Len(qname) - Len(ZONE)), {"."})
      parts == SplitOn(label, ".")
  IN  IF ~EndsWith(qname, ZONE) \/ req.qtype # "TXT" \/ label = <<>> THEN <<>>
      ELSE IF Len(parts) = 2 /\ parts[1] = META THEN f_bytes_paths(st, s_name(parts[2]))
      ELSE IF Len(parts) = 2 /\ StartsWith(parts[1], CHUNK)
                /\ PyInt(Slice(parts[1], 5, Len(parts[1]))).ok
      THEN f_bytes_paths(st, s_name(parts[2]))
      ELSE <<>>

\* resolve without the welcome reply of lines 68-70
resolve_NoWelcome(st, req) ==
  LET qname == StrLower(req.qname)
      qtype == req.qtype
  IN  IF ~EndsWith(qname, ZONE) THEN NXDOMAIN
      ELSE IF qtype # "TXT" THEN NXDOMAIN
      ELSE LET label == StripChars(Slice(qname, 0, Len(qname) - Len(ZONE)), {"."})
               parts == SplitOn(label, ".")
           IN  IF Len(parts) = 2 /\ parts[1] = META
               THEN MetaHandler(st, parts[2])
               ELSE IF Len(parts) = 2 /\ StartsWith(parts[1], CHUNK)
               THEN ChunkHandler(st, parts[1], parts[2])
               ELSE NXDOMAIN

\* resolve without the record type check of lines 63-65
resolve_NoTypeCheck(st, req) ==
  LET qname == StrLower(req.qname)
  IN  IF ~EndsWith(qname, ZONE) THEN NXDOMAIN
      ELSE LET label == StripChars(Slice(qname, 0, Len(qname) - Len(ZONE)), {"."})
           IN  IF label = <<>> THEN Answer(WELCOME)
               ELSE LET parts == SplitOn(label, ".")
                    IN  IF Len(parts) = 2 /\ parts[1] = META
                        THEN MetaHandler(st, parts[2])
                        ELSE IF Len(parts) = 2 /\ StartsWith(parts[1], CHUNK)
                        THEN ChunkHandler(st, parts[1], parts[2])
                        ELSE NXDOMAIN

\* dns_fs_resolver.resolve: the request is [qname, qtype], qname as str(request.q.qname)
resolve(st, req) ==
  LET qname == StrLower(req.qname)
      qtype == req.qtype
  IN  IF ~EndsWith(qname, ZONE) THEN NXDOMAIN
      ELSE IF qtype # "TXT" THEN NXDOMAIN
      ELSE LET label == StripChars(Slice(qname, 0, Len(qname) - Len(ZONE)), {"."})
           IN  IF label = <<>> THEN Answer(WELCOME)
               ELSE LET parts == SplitOn(label, ".")
                    IN  IF Len(parts) = 2 /\ parts[1] = META
                        THEN MetaHandler(st, parts[2])
                        ELSE IF Len(parts) = 2 /\ StartsWith(parts[1], CHUNK)
                        THEN ChunkHandler(st, parts[1], parts[2])
                        ELSE NXDOMAIN


(***************************************************************************)
(* The client: src/dnsfs_client.py                                         *)
(***************************************************************************)
\* The transport gave no reply packet: q.send raised (timeout=2)
TIMEOUT == [rcode |-> "TIMEOUT", rr |-> <<>>]

\* str(r.rr[0].rdata): the TXT string in double quotes
TxtRepr(txt) == <<"\"">> \o txt \o <<"\"">>

\* queryt without the raise on rcode != 0 or an empty answer section
queryt_NoRaise(packet) ==
  IF packet.rcode = "TIMEOUT" THEN [ok |-> FALSE, exc |-> "timeout", txt |-> <<>>]
  ELSE IF packet.rcode # "NOERROR" \/ Len(packet.rr) = 0
  THEN [ok |-> TRUE, exc |-> "", txt |-> <<>>]
  ELSE [ok |-> TRUE, exc |-> "", txt |-> StripChars(TxtRepr(packet.rr[1]), {"\""})]

\* queryt that also raises when the text of the answer is empty
queryt_RaiseOnEmptyText(packet) ==
  IF packet.rcode = "TIMEOUT" THEN [ok |-> FALSE, exc |-> "timeout", txt |-> <<>>]
  ELSE IF packet.rcode # "NOERROR" \/ Len(packet.rr) = 0
  THEN [ok |-> FALSE, exc |-> "RuntimeError: NXDOMAIN/empty", txt |-> <<>>]
  ELSE IF StripChars(TxtRepr(packet.rr[1]), {"\""}) = <<>>
  THEN [ok |-> FALSE, exc |-> "RuntimeError: NXDOMAIN/empty", txt |-> <<>>]
  ELSE [ok |-> TRUE, exc |-> "", txt |-> StripChars(TxtRepr(packet.rr[1]), {"\""})]

\* queryt, from the reply packet on: the text, or the exception raised
queryt(packet) ==
  IF packet.rcode = "TIMEOUT" THEN [ok |-> FALSE, exc |-> "timeout", txt |-> <<>>]
  ELSE IF packet.rcode # "NOERROR" \/ Len(packet.rr) = 0
  THEN [ok |-> FALSE, exc |-> "RuntimeError: NXDOMAIN/empty", txt |-> <<>>]
  ELSE [ok |-> TRUE, exc |-> "", txt |-> StripChars(TxtRepr(packet.rr[1]), {"\""})]

\* ParseParts that keeps the white space around keys and values
RECURSIVE ParseParts_NoStrip(_, _)
ParseParts_NoStrip(parts, out) ==
  IF parts = <<>> THEN out
  ELSE LET part == Head(parts)
           eqs  == {i \in 1..Len(part) : part[i] = "="}
       IN  IF eqs = {} THEN ParseParts_NoStrip(Tail(parts), out)
           ELSE LET e == CHOOSE i \in eqs : \A j \in eqs : i <= j
                    k == SubSeq(part, 1, e - 1)
                    v == SubSeq(part, e + 1, Len(part))
                IN  ParseParts_NoStrip(Tail(parts),
                               [x \in (DOMAIN out) \cup {k} |-> IF x = k THEN v ELSE out[x]])

\* part.split("=", 1) then out[k.strip()] = v.strip(), for the parts holding "="
RECURSIVE ParseParts(_, _)
ParseParts(parts, out) ==
  IF parts = <<>> THEN out
  ELSE LET part == Head(parts)
           eqs  == {i \in 1..Len(part) : part[i] = "="}
       IN  IF eqs = {} THEN ParseParts(Tail(parts), out)
           ELSE LET e == CHOOSE i \in eqs : \A j \in eqs : i <= j
                    k == StripChars(SubSeq(part, 1, e - 1), WHITESPACE)
                    v == StripChars(SubSeq(part, e + 1, Len(part)), WHITESPACE)
                IN  ParseParts(Tail(parts),
                               [x \in (DOMAIN out) \cup {k} |-> IF x = k THEN v ELSE out[x]])

\* parse_meta: a dict, as a function from the keys to the values
parse_meta(meta) == ParseParts(SplitOn(meta, ";"), <<>>)

\* dict.get(key, default)
DictGet(d, key, default) == IF key \in DOMAIN d THEN d[key] ELSE default

KEY_CHUNKS == <<"c", "h", "u", "n", "k", "s">>

KEY_SHA256 == <<"s", "h", "a", "2", "5", "6">>

KEY_BYTES == <<"b", "y", "t", "e", "s">>

\* f"meta.{name}.{ZONE}"
MetaQuery(name) == META \o <<".">> \o name \o <<".">> \o CLIENT_ZONE

\* ChunkQuery that numbers the chunks from 1
ChunkQuery_FromOne(i, name) ==
  CHUNK \o IntStr(i + 1) \o <<".">> \o name \o <<".">> \o CLIENT_ZONE

\* f"chunk{i}.{name}.{ZONE}"
ChunkQuery(i, name) == CHUNK \o IntStr(i) \o <<".">> \o name \o <<".">> \o CLIENT_ZONE

\* ReadMeta that looks the digest up under the key "sha"
ReadMeta_WrongShaKey(meta_txt) ==
  LET meta  == parse_meta(meta_txt)
      count == IF KEY_CHUNKS \in DOMAIN meta THEN PyInt(meta[KEY_CHUNKS]) ELSE ValueError
      size  == PyInt(DictGet(meta, KEY_BYTES, <<"0">>))
      none  == [ok |-> FALSE, exc |-> "", chunk_count |-> 0,
                expected_sha |-> <<>>, expected_bytes |-> 0]
  IN  IF KEY_CHUNKS \notin DOMAIN meta THEN [none EXCEPT !.exc = "KeyError: chunks"]
      ELSE IF ~count.ok THEN [none EXCEPT !.exc = "ValueError: chunks"]
      ELSE IF ~size.ok THEN [none EXCEPT !.exc = "ValueError: bytes"]
      ELSE [ok |-> TRUE, exc |-> "", chunk_count |-> count.val,
            expected_sha |-> DictGet(meta, <<"s", "h", "a">>, <<>>),
            expected_bytes |-> size.val]

\* fetchf, lines 41-45: what the meta text declares, or the exception raised
ReadMeta(meta_txt) ==
  LET meta  == parse_meta(meta_txt)
      count == IF KEY_CHUNKS \in DOMAIN meta THEN PyInt(meta[KEY_CHUNKS]) ELSE ValueError
      size  == PyInt(DictGet(meta, KEY_BYTES, <<"0">>))
      none  == [ok |-> FALSE, exc |-> "", chunk_count |-> 0,
                expected_sha |-> <<>>, expected_bytes |-> 0]
  IN  IF KEY_CHUNKS \notin DOMAIN meta THEN [none EXCEPT !.exc = "KeyError: chunks"]
      ELSE IF ~count.ok THEN [none EXCEPT !.exc = "ValueError: chunks"]
      ELSE IF ~size.ok THEN [none EXCEPT !.exc = "ValueError: bytes"]
      ELSE [ok |-> TRUE, exc |-> "", chunk_count |-> count.val,
            expected_sha |-> DictGet(meta, KEY_SHA256, <<>>),
            expected_bytes |-> size.val]

\* Finish without the sha256 comparison
Finish_NoShaCheck(chs, sha, nbytes) ==
  LET d == b64decode(Join(chs))
  IN  IF ~d.ok THEN [ok |-> FALSE, exc |-> "binascii.Error", data |-> <<>>]
      ELSE IF nbytes # 0 /\ Len(d.data) # nbytes
      THEN [ok |-> FALSE, exc |-> "RuntimeError: size mismatch", data |-> <<>>]
      ELSE [ok |-> TRUE, exc |-> "", data |-> d.data]

\* fetchf, lines 51-60: decode, verify, write; the file written or the exception
Finish(chs, sha, nbytes) ==
  LET d == b64decode(Join(chs))
  IN  IF ~d.ok THEN [ok |-> FALSE, exc |-> "binascii.Error", data |-> <<>>]
      ELSE IF nbytes # 0 /\ Len(d.data) # nbytes
      THEN [ok |-> FALSE, exc |-> "RuntimeError: size mismatch", data |-> <<>>]
      ELSE IF sha # <<>> /\ sha256_hex(d.data) # sha
      THEN [ok |-> FALSE, exc |-> "RuntimeError: sha256 mismatch", data |-> <<>>]
      ELSE [ok |-> TRUE, exc |-> "", data |-> d.data]


(***************************************************************************)
(* The inputs: stored files, storage directories, requested names.         *)
(***************************************************************************)
\* Byte values of the enumerated short files
ByteVals == {0, 104, 255}

\* Every byte sequence over ByteVals of length n
RECURSIVE SeqsOfLen(_)
SeqsOfLen(n) ==
  IF n = 0 THEN {<<>>}
  ELSE {Append(t, b) : t \in SeqsOfLen(n - 1), b \in ByteVals}

ShortFiles == UNION {SeqsOfLen(n) : n \in 0..MaxSmallLen}

\* A generated file of the given length
Pattern(len, seed) == [i \in 1..len |-> (151 * seed + 37 * (2 * seed + 1) * i) % 256]

\* Bytes whose base64 text fills one chunk exactly
BytesPerChunk == (CHUNK_CHARS \div 4) * 3

LongLens == {BytesPerChunk * k + d : k \in 1..MaxFullChunks, d \in {-1, 0, 1}}

PatternFiles == {Pattern(len, seed) : len \in (0..3) \cup LongLens, seed \in 0..MaxSeed}

Files == ShortFiles \cup PatternFiles

HELLO == <<"h", "e", "l", "l", "o">>

\* A directory holding one regular file
OneFile(path, bytes) == [p \in {path} |-> bytes]

\* A directory holding two regular files
TwoFiles(p1, b1, p2, b2) == [p \in {p1, p2} |-> IF p = p1 THEN b1 ELSE b2]

HelloPaths == {HELLO, HELLO \o EXT_BIN, HELLO \o EXT_TXT}

\* Files that no lookup of hello or absent reads: hello.dat, hell, hello.txt.bin
DecoyPaths == {<<"h", "e", "l", "l", "o", ".", "d", "a", "t">>, <<"h", "e", "l", "l">>, <<"h", "e", "l", "l", "o", ".", "t", "x", "t", ".", "b", "i", "n">>}

EmptyStore == <<>>

\* Storage directories the dispatcher is probed on
Stores ==
  {EmptyStore}
    \cup {OneFile(p, b) : p \in HelloPaths, b \in Files}
    \cup {OneFile(p, <<104>>) : p \in DecoyPaths}
    \cup UNION {{TwoFiles(p1, <<104>>, p2, b) :
                   p2 \in HelloPaths \ {p1}, b \in {<<>>, <<0, 255>>}} : p1 \in HelloPaths}
    \cup {[p \in HelloPaths |-> IF p = HELLO THEN <<104>>
                                ELSE IF p = HELLO \o EXT_BIN THEN <<0>> ELSE <<255>>]}

\* Storage directories the client fetches from
FetchStores ==
  {EmptyStore}
    \cup {OneFile(p, b) : p \in {HELLO, HELLO \o EXT_TXT}, b \in PatternFiles \cup {<<104>>}}


\* Query names the dispatcher is probed with, besides chunk<i>.hello.lab.
ProbeNames ==
  {<<"l", "a", "b", ".">>,
   <<"x", "l", "a", "b", ".">>,
   <<".">>,
   <<"L", "A", "B", ".">>,
   <<"m", "e", "t", "a", ".", "h", "e", "l", "l", "o", ".", "l", "a", "b", ".">>,
   <<"M", "E", "T", "A", ".", "H", "e", "l", "l", "o", ".", "L", "A", "B", ".">>,
   <<"m", "e", "t", "a", ".", "h", "e", "l", "+", "l", "o", ".", "l", "a", "b", ".">>,
   <<"m", "e", "t", "a", ".", "a", "b", "s", "e", "n", "t", ".", "l", "a", "b", ".">>,
   <<"m", "e", "t", "a", ".", ".", "l", "a", "b", ".">>,
   <<"m", "e", "t", "a", ".", "h", "e", "l", "l", "o", ".", "c", "o", "m", ".">>,
   <<"m", "e", "t", "a", ".", "h", "e", "l", "l", "o", ".", "x", "l", "a", "b", ".">>,
   <<"m", "e", "t", "a", ".", "h", "e", "l", "l", "o", "l", "a", "b", ".">>,
   <<"h", "e", "l", "l", "o", ".", "l", "a", "b", ".">>,
   <<"x", ".", "m", "e", "t", "a", ".", "h", "e", "l", "l", "o", ".", "l", "a", "b", ".">>,
   <<"m", "e", "t", "a", "d", "a", "t", "a", ".", "h", "e", "l", "l", "o", ".", "l", "a", "b", ".">>,
   <<"c", "h", "u", "n", "k", ".", "h", "e", "l", "l", "o", ".", "l", "a", "b", ".">>,
   <<"c", "h", "u", "n", "k", "-", "1", ".", "h", "e", "l", "l", "o", ".", "l", "a", "b", ".">>,
   <<"c", "h", "u", "n", "k", "+", "1", ".", "h", "e", "l", "l", "o", ".", "l", "a", "b", ".">>,
   <<"c", "h", "u", "n", "k", "-", "0", ".", "h", "e", "l", "l", "o", ".", "l", "a", "b", ".">>,
   <<"c", "h", "u", "n", "k", "0", "_", "1", ".", "h", "e", "l", "l", "o", ".", "l", "a", "b", ".">>,
   <<"c", "h", "u", "n", "k", "x", ".", "h", "e", "l", "l", "o", ".", "l", "a", "b", ".">>,
   <<"c", "h", "u", "n", "k", "1", "x", ".", "h", "e", "l", "l", "o", ".", "l", "a", "b", ".">>,
   <<"c", "h", "u", "n", "k", "0", "1", ".", "h", "e", "l", "l", "o", ".", "l", "a", "b", ".">>,
   <<"c", "h", "u", "n", "k", "s", "1", ".", "h", "e", "l", "l", "o", ".", "l", "a", "b", ".">>,
   <<"C", "H", "U", "N", "K", "0", ".", "H", "E", "L", "L", "O", ".", "L", "A", "B", ".">>,
   <<"c", "h", "u", "n", "k", "0", ".", "a", "b", "s", "e", "n", "t", ".", "l", "a", "b", ".">>,
   <<"c", "h", "u", "n", "k", "0", ".", "h", "e", "l", "l", "o", ".", "t", "x", "t", ".", "l", "a", "b", ".">>,
   <<"c", "h", "u", "n", "k", "0", ".", "h", "e", "l", "l", "o", ".", "c", "o", "m", ".">>}

\* One index past every chunk count the stored files reach
MaxProbeIndex == MaxFullChunks + 2

ProbeChunkNames ==
  {CHUNK \o IntStr(i) \o <<".">> \o HELLO \o <<".">> \o ZONE : i \in 0..MaxProbeIndex}

Requests ==
  {[qname |-> n, qtype |-> t] : n \in ProbeNames \cup ProbeChunkNames, t \in {"TXT", "A"}}

\* Names the client asks for
FetchNames == {HELLO, <<"H", "e", "L", "L", "o">>}

\* Meta texts a faulty transport may answer with
ForgedMetaTexts ==
  {MetaText(n, sha, b) : n \in {-1, 1, 2}, sha \in {<<>>, sha256_hex(<<104>>)}, b \in {0, 1}}
    \cup {<<"e", "n", "c", "=", "b", "a", "s", "e", "6", "4">>,
          <<"c", "h", "u", "n", "k", "s", "=", "x">>,
          <<"c", "h", "u", "n", "k", "s", "=", "1", ";", "b", "y", "t", "e", "s", "=", "z">>,
          <<" ", "c", "h", "u", "n", "k", "s", " ", "=", " ", "1", " ", ";", "j", "u", "n", "k", ";", " ", "s", "h", "a", "2", "5", "6", " ", "=", " ", ";", "k", "=", "v">>,
          <<"c", "h", "u", "n", "k", "s", "=", "1", ";", "c", "h", "u", "n", "k", "s", "=", "0">>,
          <<"c", "h", "u", "n", "k", "s", "=", "1">>,
          <<>>}

\* Chunk texts a faulty transport may answer with ("aA==" is base64 of the byte 104)
ForgedChunkTexts ==
  {<<"a", "A", "=", "=">>, <<"a", "A">>, <<"a", "!", "A", "=", "=">>, <<>>}

\* Replies a faulty transport may give instead of the server's
ForgedReplies(texts) ==
  {NXDOMAIN, [rcode |-> "NOERROR", rr |-> <<>>]} \cup {Answer(t) : t \in texts}

\* str(DNSLabel): the name as it reaches the server, with the root's dot
Fqdn(name) == IF EndsWith(name, <<".">>) THEN name ELSE name \o <<".">>


(***************************************************************************)
(* The state.                                                              *)
(***************************************************************************)
VARIABLES
  store,           \* the storage directory: file name -> bytes
  name,            \* fetchf's argument
  pc,              \* where fetchf is: init, meta, chunks, done, failed (idle: not run)
  err,             \* the exception that ended fetchf
  chunk_count,     \* fetchf's locals
  expected_sha,
  expected_bytes,
  chunks,
  out_file,        \* the file at out_path
  query,           \* the query name queryt has sent and not yet got a reply to
  reply,           \* the reply packet on its way to queryt
  issued,          \* history: the query names sent, in order
  replies,         \* history: the reply packets queryt got, in order
  faults,          \* history: replies the transport lost or forged
  changes,         \* history: changes of the storage since the fetch began
  request,         \* the request resolve was last called with
  response,        \* what resolve returned for it
  reads,           \* the paths that call asked the file system about
  threads,         \* per server thread: where its call of resolve is, and the request it was given
  frames,          \* the local variables of the calls of resolve, one frame per call
  served,          \* history: the [request, reply] pairs of the calls that returned
  data,            \* the bytes given to the chunk codec
  encoded,         \* b64_chunks(data)
  decoded,         \* the client's decoding of the joined chunks
  cpc,             \* where the codec run is: input, encoded, decoded (idle: not run)
  raw,             \* the raw name given to s_name
  sanitized        \* s_name(raw), then s_name of that

fetchVars ==
  <<name, pc, err, chunk_count, expected_sha, expected_bytes, chunks, out_file,
    query, reply, issued, replies, faults, changes>>

serverVars == <<request, response, reads, threads, frames, served>>

codecVars == <<data, encoded, decoded, cpc>>

nameVars == <<raw, sanitized>>

vars == <<store, fetchVars, serverVars, codecVars, nameVars>>

NoQuery == <<>>

NoReply == [rcode |-> "NONE", rr |-> <<>>]

NoRequest == [qname |-> <<>>, qtype |-> ""]

NotWritten == [written |-> FALSE, data |-> <<>>]

Written(bytes) == [written |-> TRUE, data |-> bytes]

FetchIdle ==
  /\ pc = "idle" /\ name = <<>> /\ err = "" /\ chunk_count = 0
  /\ expected_sha = <<>> /\ expected_bytes = 0 /\ chunks = <<>>
  /\ out_file = NotWritten /\ query = NoQuery /\ reply = NoReply
  /\ issued = <<>> /\ replies = <<>> /\ faults = 0 /\ changes = 0

Threads == 1..MaxThreads

\* A thread that runs no call of resolve
NoCall == [at |-> "idle", asked |-> NoRequest]

\* The locals of resolve before the call: qname, qtype, name, idx, data, reply,
\* and which handler the label was routed to
NoFrame ==
  [qname |-> <<>>, qtype |-> "", kind |-> "", name |-> <<>>, idx |-> 0, data |-> <<>>,
   reply |-> NoReply]

ServerIdle ==
  /\ request = NoRequest /\ response = NoReply /\ reads = <<>>
  /\ threads = [t \in Threads |-> NoCall]
  /\ frames = [t \in Threads |-> NoFrame]
  /\ served = {}

CodecIdle == data = <<>> /\ encoded = <<>> /\ decoded = BinasciiError /\ cpc = "idle"

NameIdle == raw = <<>> /\ sanitized = <<>>

(***************************************************************************)
(* The client's run of fetchf against the server, over the transport.      *)
(***************************************************************************)
Init ==
  /\ store \in FetchStores
  /\ name \in FetchNames
  /\ pc = "init" /\ err = "" /\ chunk_count = 0
  /\ expected_sha = <<>> /\ expected_bytes = 0 /\ chunks = <<>>
  /\ out_file = NotWritten /\ query = NoQuery /\ reply = NoReply
  /\ issued = <<>> /\ replies = <<>> /\ faults = 0 /\ changes = 0
  /\ ServerIdle
  /\ CodecIdle
  /\ NameIdle

\* fetchf line 40: the meta query is sent
FetchStart ==
  /\ pc = "init"
  /\ pc' = "meta"
  /\ query' = MetaQuery(name)
  /\ issued' = Append(issued, MetaQuery(name))
  /\ UNCHANGED <<store, name, err, chunk_count, expected_sha, expected_bytes, chunks,
                 out_file, reply, replies, faults, serverVars, codecVars, nameVars, changes>>

\* The transport hands the query to the server and the server's reply back
Deliver ==
  /\ query # NoQuery
  /\ reply = NoReply
  /\ reply' = resolve(store, [qname |-> Fqdn(query), qtype |-> "TXT"])
  /\ UNCHANGED <<store, name, pc, err, chunk_count, expected_sha, expected_bytes, chunks,
                 out_file, query, issued, replies, faults, serverVars, codecVars, nameVars, changes>>

\* The transport loses the query or its reply: q.send times out
Timeout ==
  /\ query # NoQuery
  /\ reply = NoReply
  /\ faults < MaxFaults
  /\ reply' = TIMEOUT
  /\ faults' = faults + 1
  /\ UNCHANGED <<store, name, pc, err, chunk_count, expected_sha, expected_bytes, chunks,
                 out_file, query, issued, replies, serverVars, codecVars, nameVars, changes>>

\* A faulty transport answers with a reply of its own
Forge ==
  /\ query # NoQuery
  /\ reply = NoReply
  /\ faults < MaxFaults
  /\ \E r \in ForgedReplies(IF pc = "meta" THEN ForgedMetaTexts ELSE ForgedChunkTexts) :
       reply' = r
  /\ faults' = faults + 1
  /\ UNCHANGED <<store, name, pc, err, chunk_count, expected_sha, expected_bytes, chunks,
                 out_file, query, issued, replies, serverVars, codecVars, nameVars, changes>>

\* fetchf ends with an exception: nothing more is sent, nothing is written
Abort(exc) ==
  /\ pc' = "failed"
  /\ err' = exc
  /\ query' = NoQuery
  /\ UNCHANGED <<issued, out_file>>

\* Continue with the loop for i in range(chunk_count + 1)
Continue_OneMore(chs, count, sha, nbytes) ==
  IF Len(chs) <= count
  THEN /\ pc' = "chunks"
       /\ query' = ChunkQuery(Len(chs), name)
       /\ issued' = Append(issued, ChunkQuery(Len(chs), name))
       /\ UNCHANGED <<err, out_file>>
  ELSE LET f == Finish(chs, sha, nbytes)
       IN  IF f.ok
           THEN /\ pc' = "done"
                /\ out_file' = Written(f.data)
                /\ query' = NoQuery
                /\ UNCHANGED <<err, issued>>
           ELSE Abort(f.exc)

\* fetchf lines 48-60 with chs collected: the next chunk query, or decode, verify, write
Continue(chs, count, sha, nbytes) ==
  IF Len(chs) < count
  THEN /\ pc' = "chunks"
       /\ query' = ChunkQuery(Len(chs), name)
       /\ issued' = Append(issued, ChunkQuery(Len(chs), name))
       /\ UNCHANGED <<err, out_file>>
  ELSE LET f == Finish(chs, sha, nbytes)
       IN  IF f.ok
           THEN /\ pc' = "done"
                /\ out_file' = Written(f.data)
                /\ query' = NoQuery
                /\ UNCHANGED <<err, issued>>
           ELSE Abort(f.exc)

\* queryt returns or raises for the meta query; fetchf lines 40-49
RecvMeta ==
  /\ pc = "meta"
  /\ reply # NoReply
  /\ replies' = Append(replies, reply)
  /\ reply' = NoReply
  /\ LET q == queryt(reply)
         m == ReadMeta(q.txt)
     IN  IF ~q.ok
         THEN Abort(q.exc) /\ UNCHANGED <<chunk_count, expected_sha, expected_bytes>>
         ELSE IF ~m.ok
         THEN Abort(m.exc) /\ UNCHANGED <<chunk_count, expected_sha, expected_bytes>>
         ELSE /\ chunk_count' = m.chunk_count
              /\ expected_sha' = m.expected_sha
              /\ expected_bytes' = m.expected_bytes
              /\ Continue(<<>>, m.chunk_count, m.expected_sha, m.expected_bytes)
  /\ UNCHANGED <<store, name, chunks, faults, serverVars, codecVars, nameVars, changes>>

\* queryt returns or raises for a chunk query; fetchf lines 48-60
RecvChunk ==
  /\ pc = "chunks"
  /\ reply # NoReply
  /\ replies' = Append(replies, reply)
  /\ reply' = NoReply
  /\ LET q == queryt(reply)
     IN  IF ~q.ok
         THEN Abort(q.exc) /\ UNCHANGED chunks
         ELSE /\ chunks' = Append(chunks, q.txt)
              /\ Continue(Append(chunks, q.txt), chunk_count, expected_sha, expected_bytes)
  /\ UNCHANGED <<store, name, chunk_count, expected_sha, expected_bytes, faults,
                 serverVars, codecVars, nameVars, changes>>

Next == FetchStart \/ Deliver \/ Timeout \/ Forge \/ RecvMeta \/ RecvChunk

Spec == Init /\ [][Next]_vars

\* A query is with the transport: sent, and neither answered nor timed out.
\* This is the enabling condition of Deliver \/ Timeout \/ Forge.
InFlight == query # NoQuery /\ reply = NoReply

\* queryt has its reply or its timeout and fetchf has not yet acted on it.
\* This is the enabling condition of RecvMeta \/ RecvChunk.
ReplyPending == pc \in {"meta", "chunks"} /\ reply # NoReply

\* fetchf runs on: a statement that can be executed is executed, and every
\* query sent gets its reply or its timeout (q.send blocks for at most 2
\* seconds). A step of RecvMeta or RecvChunk ends ReplyPending and a step of
\* the transport ends InFlight, so that WF_vars(RecvMeta \/ RecvChunk) is
\* []<>~ReplyPending and WF_vars(Deliver \/ Timeout \/ Forge) is []<>~InFlight;
\* they are written that way.
Fairness ==
  /\ WF_vars(FetchStart)
  /\ []<>~ReplyPending
  /\ []<>~InFlight

SpecLive == Init /\ [][Next]_vars /\ Fairness

(***************************************************************************)
(* The fetch while the storage changes: the server reads the storage anew  *)
(* for every query, the transport is faithful.                             *)
(***************************************************************************)
\* Versions of the stored file: two of the same length, one that shares its
\* first chunk with them, one of one chunk, the empty one
ChurnFiles ==
  {Pattern(2 * BytesPerChunk, 0), Pattern(2 * BytesPerChunk, 1),
   Pattern(2 * BytesPerChunk - 1, 0), <<104>>, <<>>}

ChurnStores == {EmptyStore} \cup {OneFile(HELLO, b) : b \in ChurnFiles}

InitChurn ==
  /\ store \in ChurnStores
  /\ name = HELLO
  /\ pc = "init" /\ err = "" /\ chunk_count = 0
  /\ expected_sha = <<>> /\ expected_bytes = 0 /\ chunks = <<>>
  /\ out_file = NotWritten /\ query = NoQuery /\ reply = NoReply
  /\ issued = <<>> /\ replies = <<>> /\ faults = 0 /\ changes = 0
  /\ ServerIdle
  /\ CodecIdle
  /\ NameIdle

\* The stored file is replaced or removed between the meta query and the
\* reply to the last chunk query
StoreChange ==
  /\ pc \in {"meta", "chunks"}
  /\ changes < MaxChanges
  /\ \E st \in ChurnStores \ {store} : store' = st
  /\ changes' = changes + 1
  /\ UNCHANGED <<name, pc, err, chunk_count, expected_sha, expected_bytes, chunks, out_file,
                 query, reply, issued, replies, faults, serverVars, codecVars, nameVars>>

NextChurn == FetchStart \/ Deliver \/ StoreChange \/ RecvMeta \/ RecvChunk

SpecChurn == InitChurn /\ [][NextChurn]_vars

(***************************************************************************)
(* The dispatcher alone: resolve called with any request on any storage.   *)
(***************************************************************************)
InitDispatch ==
  /\ store \in Stores
  /\ ServerIdle
  /\ FetchIdle
  /\ CodecIdle
  /\ NameIdle

Resolve ==
  /\ request = NoRequest
  /\ \E q \in Requests :
       /\ request' = q
       /\ response' = resolve(store, q)
       /\ reads' = resolve_paths(store, q)
  /\ UNCHANGED <<store, fetchVars, codecVars, nameVars, threads, frames, served>>

NextDispatch == Resolve

SpecDispatch == InitDispatch /\ [][NextDispatch]_vars

(***************************************************************************)
(* The dispatcher under the threaded server: every request is handled by a *)
(* call of resolve on a thread of its own, all on the one resolver object, *)
(* which has no attributes; the calls interleave between their statements. *)
(***************************************************************************)
\* Requests the threads are given
ThreadRequests ==
  {[qname |-> Fqdn(MetaQuery(HELLO)), qtype |-> "TXT"],
   [qname |-> Fqdn(ChunkQuery(0, HELLO)), qtype |-> "TXT"],
   [qname |-> Fqdn(ChunkQuery(1, HELLO)), qtype |-> "TXT"],
   [qname |-> <<"L", "A", "B", ".">>, qtype |-> "TXT"],
   [qname |-> <<"c", "h", "u", "n", "k", "x", ".", "h", "e", "l", "l", "o", ".", "l", "a", "b", ".">>, qtype |-> "TXT"]}

\* Storage directories under the threaded server
ThreadStores ==
  {EmptyStore,
   OneFile(HELLO \o EXT_TXT, Pattern(BytesPerChunk + 1, 0)),
   TwoFiles(HELLO \o EXT_BIN, <<0, 255>>, HELLO \o EXT_TXT, <<104>>)}

\* Locals shared by every call, as attributes of the one resolver object would be
Frame_Shared(t) == 1

\* The frame that holds the locals of the call thread t runs: its own
Frame(t) == t

InitThreads ==
  /\ store \in ThreadStores
  /\ ServerIdle
  /\ FetchIdle
  /\ CodecIdle
  /\ NameIdle

\* resolve is called on thread t: lines 52-54
Enter(t) ==
  /\ threads[t].at = "idle"
  /\ \E q \in ThreadRequests :
       /\ threads' = [threads EXCEPT ![t] = [at |-> "route", asked |-> q]]
       /\ frames' = [frames EXCEPT ![Frame(t)] =
                       [NoFrame EXCEPT !.qname = StrLower(q.qname), !.qtype = q.qtype]]
  /\ UNCHANGED <<store, request, response, reads, served, fetchVars, codecVars, nameVars>>

\* lines 59-74 and 88-94: the gates, the label, the routing, the index
Route(t) ==
  /\ threads[t].at = "route"
  /\ LET f     == frames[Frame(t)]
         label == StripChars(Slice(f.qname, 0, Len(f.qname) - Len(ZONE)), {"."})
         parts == SplitOn(label, ".")
         back(r) == /\ frames' = [frames EXCEPT ![Frame(t)].reply = r]
                    /\ threads' = [threads EXCEPT ![t].at = "return"]
     IN  IF ~EndsWith(f.qname, ZONE) THEN back(NXDOMAIN)
         ELSE IF f.qtype # "TXT" THEN back(NXDOMAIN)
         ELSE IF label = <<>> THEN back(Answer(WELCOME))
         ELSE IF Len(parts) = 2 /\ parts[1] = META
         THEN /\ frames' = [frames EXCEPT ![Frame(t)].kind = "meta",
                                           ![Frame(t)].name = s_name(parts[2])]
              /\ threads' = [threads EXCEPT ![t].at = "read"]
         ELSE IF Len(parts) = 2 /\ StartsWith(parts[1], CHUNK)
         THEN LET idx == PyInt(Slice(parts[1], 5, Len(parts[1])))
              IN  IF ~idx.ok THEN back(NXDOMAIN)
                  ELSE /\ frames' = [frames EXCEPT ![Frame(t)].kind = "chunk",
                                                    ![Frame(t)].name = s_name(parts[2]),
                                                    ![Frame(t)].idx = idx.val]
                       /\ threads' = [threads EXCEPT ![t].at = "read"]
         ELSE back(NXDOMAIN)
  /\ UNCHANGED <<store, request, response, reads, served, fetchVars, codecVars, nameVars>>

\* lines 76-80 and 96-100: f_bytes reads the storage as it is now
ReadFile(t) ==
  /\ threads[t].at = "read"
  /\ LET file == f_bytes(store, frames[Frame(t)].name)
     IN  IF ~file.found
         THEN /\ frames' = [frames EXCEPT ![Frame(t)].reply = NXDOMAIN]
              /\ threads' = [threads EXCEPT ![t].at = "return"]
         ELSE /\ frames' = [frames EXCEPT ![Frame(t)].data = file.data]
              /\ threads' = [threads EXCEPT ![t].at = "build"]
  /\ UNCHANGED <<store, request, response, reads, served, fetchVars, codecVars, nameVars>>

\* lines 82-84 and 102-107: the chunks of the data read, and the answer
BuildReply(t) ==
  /\ threads[t].at = "build"
  /\ LET f      == frames[Frame(t)]
         chunks_ == b64_chunks(f.data)
     IN  frames' = [frames EXCEPT ![Frame(t)].reply =
           IF f.kind = "meta"
           THEN Answer(MetaText(Len(chunks_), sha256_hex(f.data), Len(f.data)))
           ELSE IF f.idx < 0 \/ f.idx >= Len(chunks_) THEN NXDOMAIN
           ELSE Answer(chunks_[f.idx + 1])]
  /\ threads' = [threads EXCEPT ![t].at = "return"]
  /\ UNCHANGED <<store, request, response, reads, served, fetchVars, codecVars, nameVars>>

\* return reply: the transport sends it as the answer to the request of this thread
Return(t) ==
  /\ threads[t].at = "return"
  /\ served' = served \cup {[request |-> threads[t].asked, reply |-> frames[Frame(t)].reply]}
  /\ threads' = [threads EXCEPT ![t] = NoCall]
  /\ frames' = [frames EXCEPT ![Frame(t)] = NoFrame]
  /\ UNCHANGED <<store, request, response, reads, fetchVars, codecVars, nameVars>>

NextThreads ==
  \E t \in Threads : Enter(t) \/ Route(t) \/ ReadFile(t) \/ BuildReply(t) \/ Return(t)

SpecThreads == InitThreads /\ [][NextThreads]_vars

(***************************************************************************)
(* s_name alone, then two queries whose raw names s_name makes the same.   *)
(***************************************************************************)
\* Characters of the raw names: letters in both cases, a digit, the two
\* punctuation marks s_name keeps and one it drops
RawChars == {"h", "H", "i", "1", "-", "_", "+"}

RECURSIVE RawOfLen(_)
RawOfLen(n) ==
  IF n = 0 THEN {<<>>}
  ELSE {Append(r, c) : r \in RawOfLen(n - 1), c \in RawChars}

RawNames == UNION {RawOfLen(n) : n \in 0..MaxRawLen}

\* Storage directories for the sanitized names hi, h-1, h_i and i
NameStores ==
  {[p \in {<<"h", "i">>, <<"h", "-", "1", ".", "t", "x", "t">>, <<"h", "_", "i", ".", "b", "i", "n">>} |->
      IF p = <<"h", "i">> THEN <<104>> ELSE IF Len(p) = 7 /\ p[2] = "-" THEN <<0, 255>> ELSE <<>>],
   OneFile(<<"i">>, <<255>>)}

\* meta.<rawName>.lab. and chunk0.<rawName>.lab.
NameQuery(kind, rawName) ==
  [qname |-> Fqdn(IF kind = "meta" THEN MetaQuery(rawName) ELSE ChunkQuery(0, rawName)),
   qtype |-> "TXT"]

InitSanitize ==
  /\ raw \in RawNames
  /\ sanitized = <<>>
  /\ store \in NameStores
  /\ ServerIdle
  /\ FetchIdle
  /\ CodecIdle

\* s_name is applied to the raw name, then to its own result
Sanitize ==
  /\ Len(sanitized) < 2
  /\ sanitized' = Append(sanitized, s_name(IF sanitized = <<>> THEN raw ELSE sanitized[1]))
  /\ UNCHANGED <<store, raw, fetchVars, serverVars, codecVars>>

\* Two queries of one kind are resolved whose raw names differ and sanitize
\* to the same name
AskBoth ==
  /\ Len(sanitized) = 2
  /\ served = {}
  /\ raw # <<>>
  /\ \E other \in RawNames \ {raw, <<>>}, kind \in {"meta", "chunk"} :
       /\ Len(other) < MaxRawLen
       /\ s_name(other) = s_name(raw)
       /\ served' = {[request |-> NameQuery(kind, r), reply |-> resolve(store, NameQuery(kind, r))] :
                       r \in {raw, other}}
  /\ UNCHANGED <<store, raw, sanitized, fetchVars, codecVars, request, response, reads,
                 threads, frames>>

NextSanitize == Sanitize \/ AskBoth

SpecSanitize == InitSanitize /\ [][NextSanitize]_vars

(***************************************************************************)
(* The chunk codec alone: b64_chunks on the server, join and decode on the *)
(* client.                                                                 *)
(***************************************************************************)
InitCodec ==
  /\ data \in Files
  /\ encoded = <<>> /\ decoded = BinasciiError /\ cpc = "input"
  /\ store = EmptyStore
  /\ ServerIdle
  /\ FetchIdle
  /\ NameIdle

Encode ==
  /\ cpc = "input"
  /\ encoded' = b64_chunks(data)
  /\ cpc' = "encoded"
  /\ UNCHANGED <<store, data, decoded, fetchVars, serverVars, nameVars>>

\* fetchf line 51
Decode ==
  /\ cpc = "encoded"
  /\ decoded' = b64decode(Join(encoded))
  /\ cpc' = "decoded"
  /\ UNCHANGED <<store, data, encoded, fetchVars, serverVars, nameVars>>

NextCodec == Encode \/ Decode

SpecCodec == InitCodec /\ [][NextCodec]_vars


(***************************************************************************)
(* The claims.                                                             *)
(***************************************************************************)
CeilDiv(a, b) == (a + b - 1) \div b

\* The file a lookup of hello reads: hello, else hello.bin, else hello.txt
HelloFile(st) ==
  IF HELLO \in DOMAIN st THEN st[HELLO]
  ELSE IF (HELLO \o EXT_BIN) \in DOMAIN st THEN st[HELLO \o EXT_BIN]
  ELSE st[HELLO \o EXT_TXT]

HasHello(st) == (DOMAIN st) \cap HelloPaths # {}

\* C1: when the transport delivers every query to resolve and returns its reply
\* unchanged, fetchf of a stored file never ends with an exception, and when it
\* is done the file written is the stored file, its length is the bytes= value
\* and its digest the sha256= value of the meta reply.
C1_EndToEnd ==
  (faults = 0 /\ HasHello(store)) =>
    /\ pc # "failed"
    /\ pc \in {"meta", "chunks"} => query # NoQuery
    /\ pc = "done" =>
         /\ out_file = Written(HelloFile(store))
         /\ expected_bytes = Len(out_file.data)
         /\ expected_sha = sha256_hex(out_file.data)
         /\ replies[1] =
              Answer(MetaText(CeilDiv(Len(b64encode(HelloFile(store))), CHUNK_CHARS),
                              expected_sha, expected_bytes))

\* A file of several chunks whose base64 text is a multiple of CHUNK_CHARS has
\* been fetched whole over a fault-free transport.
C1_Witness ==
  /\ pc = "done" /\ faults = 0
  /\ Len(chunks) >= 2
  /\ Len(chunks[Len(chunks)]) = CHUNK_CHARS
  /\ out_file = Written(HelloFile(store))

\* The empty file has been fetched: no chunk query, an empty file written.
C1_WitnessEmpty ==
  /\ pc = "done" /\ faults = 0 /\ HasHello(store)
  /\ Len(issued) = 1 /\ out_file = Written(<<>>)

\* C2: the chunks of b64_chunks(b), joined in ascending order with no separator,
\* are base64(b), and the client's decoding of the joined text is b.
C2_RoundTrip ==
  /\ cpc \in {"encoded", "decoded"} => Join(encoded) = b64encode(data)
  /\ cpc = "decoded" => decoded = [ok |-> TRUE, data |-> data]

\* A file of three chunks, the last one short, has been encoded and decoded.
C2_Witness ==
  /\ cpc = "decoded" /\ Len(encoded) >= 3
  /\ Len(encoded[Len(encoded)]) < CHUNK_CHARS
  /\ decoded.data = data /\ data # <<>>

MetaHelloRequest == [qname |-> <<"m", "e", "t", "a", ".", "h", "e", "l", "l", "o", ".", "l", "a", "b", ".">>, qtype |-> "TXT"]

ChunkHelloRequest(i) ==
  [qname |-> CHUNK \o IntStr(i) \o <<".">> \o HELLO \o <<".">> \o ZONE, qtype |-> "TXT"]

\* C3: the chunks= value of the meta reply is ceil(len(base64(b)) / CHUNK_CHARS),
\* 0 for the empty file; when len(base64(b)) is a positive multiple of
\* CHUNK_CHARS the last chunk has CHUNK_CHARS characters and no chunk follows it.
C3_ChunkCount ==
  HasHello(store) =>
    LET b64len == Len(b64encode(HelloFile(store)))
        count  == CeilDiv(b64len, CHUNK_CHARS)
    IN  /\ request = MetaHelloRequest =>
             /\ response.rcode = "NOERROR"
             /\ Len(response.rr) = 1
             /\ StartsWith(response.rr[1], <<"c", "h", "u", "n", "k", "s", "=">> \o IntStr(count) \o <<";">>)
             /\ (HelloFile(store) = <<>> => StartsWith(response.rr[1], <<"c", "h", "u", "n", "k", "s", "=", "0", ";">>))
        /\ (b64len > 0 /\ b64len % CHUNK_CHARS = 0) =>
             /\ request = ChunkHelloRequest(count - 1) =>
                  response.rcode = "NOERROR" /\ Len(response.rr[1]) = CHUNK_CHARS
             /\ request = ChunkHelloRequest(count) => response = NXDOMAIN

\* The meta reply for a file whose base64 text fills two chunks exactly.
C3_Witness ==
  /\ HasHello(store)
  /\ Len(b64encode(HelloFile(store))) = 2 * CHUNK_CHARS
  /\ request = MetaHelloRequest
  /\ StartsWith(response.rr[1], <<"c", "h", "u", "n", "k", "s", "=", "2", ";">>)


TxtRequest(qn) == [qname |-> qn, qtype |-> "TXT"]

\* Chunk queries for hello with a decimal index, and the index each one carries
HelloChunkProbes ==
  {[req |-> ChunkHelloRequest(i), idx |-> i] : i \in 0..MaxProbeIndex}
    \cup {[req |-> TxtRequest(<<"c", "h", "u", "n", "k", "0", "1", ".", "h", "e", "l", "l", "o", ".", "l", "a", "b", ".">>), idx |-> 1],
          [req |-> TxtRequest(<<"C", "H", "U", "N", "K", "0", ".", "H", "E", "L", "L", "O", ".", "L", "A", "B", ".">>), idx |-> 0]}

\* The chunk queries int() reads an index from without the index being plain digits
SignedChunkProbes ==
  {[req |-> TxtRequest(<<"c", "h", "u", "n", "k", "+", "1", ".", "h", "e", "l", "l", "o", ".", "l", "a", "b", ".">>), idx |-> 1],
   [req |-> TxtRequest(<<"c", "h", "u", "n", "k", "0", "_", "1", ".", "h", "e", "l", "l", "o", ".", "l", "a", "b", ".">>), idx |-> 1],
   [req |-> TxtRequest(<<"c", "h", "u", "n", "k", "-", "0", ".", "h", "e", "l", "l", "o", ".", "l", "a", "b", ".">>), idx |-> 0]}

\* Chunk index i of the file b, cut from base64(b) directly
ExpectedChunk(b, i) ==
  SubSeq(b64encode(b), CHUNK_CHARS * i + 1, Min(CHUNK_CHARS * (i + 1), Len(b64encode(b))))

\* C4: a chunk query for a stored file with index >= the file's chunk count
\* (every index, for the empty file) gets NXDOMAIN and no answer; one with index
\* in [0, chunk count) gets NOERROR with exactly the chunk at that index.
C4_OutOfRange ==
  \A p \in HelloChunkProbes :
    (request = p.req /\ HasHello(store)) =>
      LET b     == HelloFile(store)
          count == CeilDiv(Len(b64encode(b)), CHUNK_CHARS)
      IN  IF p.idx >= count THEN response = NXDOMAIN
          ELSE response = Answer(ExpectedChunk(b, p.idx))

\* A query for the index just past the last chunk of a file of several chunks.
C4_Witness ==
  /\ HasHello(store)
  /\ CeilDiv(Len(b64encode(HelloFile(store))), CHUNK_CHARS) >= 2
  /\ request = ChunkHelloRequest(CeilDiv(Len(b64encode(HelloFile(store))), CHUNK_CHARS))
  /\ response = NXDOMAIN

\* Meta and chunk queries whose raw name sanitizes to "absent"
AbsentProbes ==
  {TxtRequest(<<"m", "e", "t", "a", ".", "a", "b", "s", "e", "n", "t", ".", "l", "a", "b", ".">>),
   TxtRequest(<<"c", "h", "u", "n", "k", "0", ".", "a", "b", "s", "e", "n", "t", ".", "l", "a", "b", ".">>)}

\* Meta and chunk queries whose raw name sanitizes to "hello"
HelloProbes ==
  {TxtRequest(n) : n \in
     {<<"m", "e", "t", "a", ".", "h", "e", "l", "l", "o", ".", "l", "a", "b", ".">>,
      <<"M", "E", "T", "A", ".", "H", "e", "l", "l", "o", ".", "L", "A", "B", ".">>,
      <<"m", "e", "t", "a", ".", "h", "e", "l", "+", "l", "o", ".", "l", "a", "b", ".">>,
      <<"m", "e", "t", "a", ".", "h", "e", "l", "l", "o", "l", "a", "b", ".">>}}
    \cup {p.req : p \in HelloChunkProbes \cup SignedChunkProbes}

\* C5: a meta or chunk query whose raw name sanitizes to n, when the storage
\* holds no regular file n, n.bin or n.txt, gets NXDOMAIN and no answer.
C5_UnknownFile ==
  (request \in AbsentProbes \/ (request \in HelloProbes /\ ~HasHello(store)))
    => response = NXDOMAIN

\* A meta query for hello on a storage that holds other files only.
C5_Witness ==
  /\ request = MetaHelloRequest
  /\ DOMAIN store # {} /\ ~HasHello(store)
  /\ response = NXDOMAIN

OutOfZoneNames ==
  {<<"m", "e", "t", "a", ".", "h", "e", "l", "l", "o", ".", "c", "o", "m", ".">>,
   <<"c", "h", "u", "n", "k", "0", ".", "h", "e", "l", "l", "o", ".", "c", "o", "m", ".">>,
   <<".">>}

UnroutableNames ==
  {<<"h", "e", "l", "l", "o", ".", "l", "a", "b", ".">>,
   <<"x", ".", "m", "e", "t", "a", ".", "h", "e", "l", "l", "o", ".", "l", "a", "b", ".">>,
   <<"m", "e", "t", "a", "d", "a", "t", "a", ".", "h", "e", "l", "l", "o", ".", "l", "a", "b", ".">>,
   <<"c", "h", "u", "n", "k", "0", ".", "h", "e", "l", "l", "o", ".", "t", "x", "t", ".", "l", "a", "b", ".">>,
   <<"m", "e", "t", "a", ".", ".", "l", "a", "b", ".">>,
   <<"m", "e", "t", "a", ".", "h", "e", "l", "l", "o", ".", "x", "l", "a", "b", ".">>}

MalformedIndexNames ==
  {<<"c", "h", "u", "n", "k", ".", "h", "e", "l", "l", "o", ".", "l", "a", "b", ".">>,
   <<"c", "h", "u", "n", "k", "x", ".", "h", "e", "l", "l", "o", ".", "l", "a", "b", ".">>,
   <<"c", "h", "u", "n", "k", "1", "x", ".", "h", "e", "l", "l", "o", ".", "l", "a", "b", ".">>,
   <<"c", "h", "u", "n", "k", "s", "1", ".", "h", "e", "l", "l", "o", ".", "l", "a", "b", ".">>}

C7_ChunkWidth ==
  \A p \in HelloChunkProbes \cup SignedChunkProbes :
    (request = p.req /\ response.rcode = "NOERROR") =>
      /\ HasHello(store)
      /\ Len(response.rr) = 1
      /\ LET b64     == b64encode(HelloFile(store))
             count   == CeilDiv(Len(b64), CHUNK_CHARS)
             payload == response.rr[1]
         IN  /\ 1 <= Len(payload) /\ Len(payload) <= CHUNK_CHARS
             /\ p.idx < count - 1 => Len(payload) = CHUNK_CHARS
             /\ CHUNK_CHARS * p.idx + Len(payload) <= Len(b64)
             /\ payload = SubSeq(b64, CHUNK_CHARS * p.idx + 1,
                                 CHUNK_CHARS * p.idx + Len(payload))

\* The middle chunk of a file of three chunks was served.
C7_Witness ==
  /\ HasHello(store)
  /\ CeilDiv(Len(b64encode(HelloFile(store))), CHUNK_CHARS) = 3
  /\ request = ChunkHelloRequest(1)
  /\ response.rcode = "NOERROR"
  /\ Len(response.rr[1]) = CHUNK_CHARS


\* A reply packet on which queryt raises
QueryFailed(packet) == packet.rcode # "NOERROR" \/ packet.rr = <<>>

NoDuplicates(seq) == \A i, j \in 1..Len(seq) : i # j => seq[i] # seq[j]

\* C8: once a query of fetchf has failed, the failed query is the last one sent,
\* nothing is outstanding and nothing is written; no query name is sent twice;
\* a meta query answered NXDOMAIN is followed by no chunk query.
C8_AbortOnFailure ==
  /\ \A k \in 1..Len(replies) :
       QueryFailed(replies[k]) =>
         /\ Len(issued) = k
         /\ k = Len(replies)
         /\ query = NoQuery
         /\ out_file = NotWritten
         /\ pc = "failed"
  /\ NoDuplicates(issued)
  /\ (Len(replies) >= 1 /\ replies[1].rcode = "NXDOMAIN") => Len(issued) = 1

\* A chunk query failed while the meta reply declared further chunks.
C8_Witness ==
  /\ pc = "failed"
  /\ Len(replies) >= 2
  /\ QueryFailed(replies[Len(replies)])
  /\ Len(issued) < chunk_count + 1
  /\ out_file = NotWritten

\* What fetchf must read from a meta reply of the server's format
DeclaredValuesRead ==
  \A n \in 0..MaxProbeIndex, b \in (0..3) \cup LongLens,
     sha \in {<<>>, sha256_hex(<<104>>)}
              \cup (IF HasHello(store) THEN {sha256_hex(HelloFile(store))} ELSE {}) :
    (pc \in {"chunks", "done"} /\ replies[1] = Answer(MetaText(n, sha, b))) =>
      (chunk_count = n /\ expected_sha = sha /\ expected_bytes = b)

\* C9: whatever the replies, the output is written only when every one of the
\* chunk_count chunk queries was sent and answered, the decoded length is the
\* declared bytes value if that is present and not 0, and the digest of the
\* decoded bytes is the declared sha256 value if that is present and not empty;
\* a fetch that ended with an exception has written nothing.
C9_IntegrityGate ==
  /\ out_file.written =>
       /\ pc = "done"
       /\ \A i \in 0..(chunk_count - 1) :
            /\ i + 2 <= Len(replies)
            /\ ~QueryFailed(replies[i + 2])
            /\ i + 1 <= Len(chunks)
       /\ expected_bytes # 0 => Len(out_file.data) = expected_bytes
       /\ expected_sha # <<>> => sha256_hex(out_file.data) = expected_sha
  /\ pc = "done" => out_file.written
  /\ pc = "failed" => out_file = NotWritten
  /\ DeclaredValuesRead

\* The output was written, both checks in force, although the transport forged a reply.
C9_Witness ==
  /\ out_file.written
  /\ faults > 0
  /\ expected_sha # <<>>
  /\ expected_bytes # 0
  /\ Len(chunks) >= 1

\* A size or digest mismatch ended the fetch after every chunk had arrived.
C9_WitnessMismatch ==
  /\ pc = "failed"
  /\ err \in {"RuntimeError: size mismatch", "RuntimeError: sha256 mismatch"}
  /\ Len(chunks) >= 1

\* The name of the query for chunk i, written out
ChunkName(i, n) == <<"c", "h", "u", "n", "k">> \o IntStr(i) \o <<".">> \o n \o <<".", "l", "a", "b">>

\* C10: the first query is the meta query; chunk queries follow only a meta
\* reply that was answered and parsed; the i-th chunk query is for index i, below
\* the declared count; a query is sent only when every earlier one has its
\* reply, so at most one is outstanding; the chunk texts are kept in the order
\* of the queries.
C10_SequentialAscending ==
  /\ Len(issued) >= 1 => issued[1] = <<"m", "e", "t", "a", ".">> \o name \o <<".", "l", "a", "b">>
  /\ Len(issued) >= 2 =>
       /\ Len(replies) >= 1
       /\ ~QueryFailed(replies[1])
       /\ ReadMeta(replies[1].rr[1]).ok
  /\ \A k \in 2..Len(issued) :
       /\ issued[k] = ChunkName(k - 2, name)
       /\ k - 2 < chunk_count
  /\ Len(replies) <= Len(issued)
  /\ Len(issued) <= Len(replies) + 1
  /\ (query # NoQuery) <=> (Len(issued) = Len(replies) + 1 \/ reply # NoReply)
  /\ reply # NoReply => (query # NoQuery /\ Len(issued) = Len(replies) + 1)
  /\ query # NoQuery => query = issued[Len(issued)]
  /\ Len(chunks) <= Len(replies)
  /\ \A k \in 1..Len(chunks) : chunks[k] = replies[k + 1].rr[1]
  /\ \A k \in 2..Len(replies) : ~QueryFailed(replies[k]) => Len(chunks) >= k - 1

\* A file of three chunks has been fetched: four queries, three texts kept.
C10_Witness ==
  /\ pc = "done"
  /\ Len(issued) = 4
  /\ Len(chunks) = 3
  /\ chunks[1] # chunks[2]

\* A reply packet that carries an answer whose text is empty
EmptyPayload(packet) ==
  packet.rcode = "NOERROR" /\ Len(packet.rr) >= 1 /\ packet.rr[1] = <<>>

\* The fetch ended at reply k: it was the last query, nothing is outstanding,
\* nothing is written
AbortedAt(k) ==
  /\ Len(issued) = k
  /\ k = Len(replies)
  /\ query = NoQuery
  /\ out_file = NotWritten
  /\ pc = "failed"

\* C11 as stated: a query answered with a timeout, a status other than NOERROR,
\* no answer record or an answer whose text is empty ends the fetch with an
\* exception: no further query is sent and nothing is written.
C11_EmptyPayloadAborts ==
  \A k \in 1..Len(replies) :
    (QueryFailed(replies[k]) \/ EmptyPayload(replies[k])) => AbortedAt(k)

\* C11: a query answered with a timeout, a status other than NOERROR or no
\* answer record ends the fetch with queryt's exception, no further query sent
\* and nothing written; an empty text ends the fetch only as the meta reply
\* (it holds no chunks key); as the reply to a chunk query it is kept as an
\* empty chunk text, and the fetch goes on to the next chunk query or, after
\* the last one, to decoding and verifying.
C11_TransportFailure ==
  \A k \in 1..Len(replies) :
    /\ QueryFailed(replies[k]) =>
         /\ AbortedAt(k)
         /\ err = (IF replies[k].rcode = "TIMEOUT" THEN "timeout"
                                                   ELSE "RuntimeError: NXDOMAIN/empty")
    /\ (k = 1 /\ EmptyPayload(replies[k])) => (AbortedAt(k) /\ err = "KeyError: chunks")
    /\ (k >= 2 /\ EmptyPayload(replies[k])) =>
         /\ Len(chunks) >= k - 1
         /\ chunks[k - 1] = <<>>
         /\ IF k - 1 < chunk_count
            THEN Len(issued) >= k + 1 /\ issued[k + 1] = ChunkName(k - 1, name)
            ELSE /\ Len(issued) = k
                 /\ pc \in {"done", "failed"}
                 /\ err \notin {"timeout", "RuntimeError: NXDOMAIN/empty"}

\* A chunk query was answered with an empty text and the next chunk query was sent.
C11_Witness ==
  /\ Len(replies) >= 2
  /\ EmptyPayload(replies[2])
  /\ Len(issued) = 3
  /\ issued[3] = ChunkName(1, name)

\* Meta payloads and what fetchf must make of each: numeric says whether the
\* payload holds a chunks key with a numeric value, ok whether lines 41-45 run
\* through, and then the values read
MetaCase(txt, numeric, ok, count, sha, nbytes) ==
  [txt |-> txt, numeric |-> numeric, ok |-> ok, count |-> count, sha |-> sha, nbytes |-> nbytes]

MetaCases ==
  {MetaCase(MetaText(n, sha, b), TRUE, TRUE, n, sha, b) :
     n \in {-1, 1, 2}, sha \in {<<>>, sha256_hex(<<104>>)}, b \in {0, 1}}
    \cup {MetaCase(<<>>, FALSE, FALSE, 0, <<>>, 0),
          MetaCase(<<"e", "n", "c", "=", "b", "a", "s", "e", "6", "4">>, FALSE, FALSE, 0, <<>>, 0),
          MetaCase(<<"c", "h", "u", "n", "k", "s", "=", "x">>, FALSE, FALSE, 0, <<>>, 0),
          MetaCase(<<"c", "h", "u", "n", "k", "s", "=", "1", ";", "b", "y", "t", "e", "s", "=", "z">>, TRUE, FALSE, 0, <<>>, 0),
          MetaCase(<<" ", "c", "h", "u", "n", "k", "s", " ", "=", " ", "1", " ", ";", "j", "u", "n", "k", ";", " ", "s", "h", "a", "2", "5", "6", " ", "=", " ", ";", "k", "=", "v">>, TRUE, TRUE, 1, <<>>, 0),
          MetaCase(<<"c", "h", "u", "n", "k", "s", "=", "1", ";", "c", "h", "u", "n", "k", "s", "=", "0">>, TRUE, TRUE, 0, <<>>, 0),
          MetaCase(<<"c", "h", "u", "n", "k", "s", "=", "1">>, TRUE, TRUE, 1, <<>>, 0)}

\* fetchf ended on the meta payload: an exception of lines 41-45
ParseFailed ==
  /\ pc = "failed"
  /\ Len(replies) = 1
  /\ err \in {"KeyError: chunks", "ValueError: chunks", "ValueError: bytes"}

\* C12 as stated: the handling of a meta payload fails as malformed only if the
\* chunks key is absent or its value is not numeric.
C12_FailsOnlyOnChunks ==
  \A c \in MetaCases :
    (Len(replies) >= 1 /\ replies[1] = Answer(c.txt) /\ c.numeric) => ~ParseFailed

\* C12: the handling of a meta payload fails as malformed when the chunks key
\* is absent or not numeric, and also when a bytes key is present with a value
\* that is not numeric; every other payload (unknown keys, segments without
\* "=", white space around keys and values, a repeated key, missing or empty
\* sha256, missing bytes) is read, the last value of a key counting; the digest
\* check is made only for a non-empty sha256 value and the size check only for
\* a bytes value other than 0.
C12_ParseTolerance ==
  /\ \A c \in MetaCases :
       (Len(replies) >= 1 /\ replies[1] = Answer(c.txt)) =>
         IF c.ok
         THEN /\ ~ParseFailed
              /\ chunk_count = c.count
              /\ expected_sha = c.sha
              /\ expected_bytes = c.nbytes
         ELSE /\ ParseFailed
              /\ Len(issued) = 1
              /\ out_file = NotWritten
              /\ (c.numeric <=> err = "ValueError: bytes")
  /\ err = "RuntimeError: sha256 mismatch" => expected_sha # <<>>
  /\ err = "RuntimeError: size mismatch" => expected_bytes # 0

\* A payload with white space, a segment without "=", an empty sha256 and an
\* unknown key was read, and the output written with neither check in force.
C12_Witness ==
  /\ Len(replies) >= 1
  /\ replies[1] = Answer(<<" ", "c", "h", "u", "n", "k", "s", " ", "=", " ", "1", " ", ";", "j", "u", "n", "k", ";", " ", "s", "h", "a", "2", "5", "6", " ", "=", " ", ";", "k", "=", "v">>)
  /\ pc = "done"
  /\ out_file.written
  /\ out_file.data # HelloFile(store)

\* One or more decimal digits and nothing else
PlainDigits(s) == s # <<>> /\ \A i \in 1..Len(s) : s[i] \in Range(DIGITS)

\* What follows "chunk" in the first part of a query name that starts with it
IndexText(qn) ==
  LET dots == {i \in 1..Len(qn) : qn[i] = "."}
      stop == CHOOSE i \in dots : \A j \in dots : i <= j
  IN  SubSeq(qn, 6, stop - 1)

\* C13: a query whose first part starts with "chunk" is answered NOERROR only
\* if what follows "chunk" is one or more decimal digits and nothing else; an
\* empty index, a leading "+" or "-", letters, or an underscore between
\* digits gets NXDOMAIN, whatever the storage holds.
C13_IndexGrammar ==
  (request # NoRequest /\ StartsWith(StrLower(request.qname), CHUNK)) =>
    (response.rcode = "NOERROR" => PlainDigits(IndexText(request.qname)))

\* The name does not end with the zone suffix, letters compared without case
OutOfZone(qn) ==
  \/ Len(qn) < 4
  \/ \E i \in 1..4 : LowerChar(qn[Len(qn) - 4 + i]) # <<"l", "a", "b", ".">>[i]

\* C14: a query whose name does not end with the zone suffix (compared without
\* case), and a query in the zone whose record type is not TXT, gets NXDOMAIN
\* whatever its label and whatever the storage holds, and the call asks the
\* file system nothing.
C14_GatesFirst ==
  (request # NoRequest /\ (OutOfZone(request.qname) \/ request.qtype # "TXT")) =>
    /\ response = NXDOMAIN
    /\ reads = <<>>

\* A meta query of type A for a stored file got NXDOMAIN without a look at the storage.
C14_Witness ==
  /\ request = [qname |-> <<"m", "e", "t", "a", ".", "h", "e", "l", "l", "o", ".", "l", "a", "b", ".">>, qtype |-> "A"]
  /\ HasHello(store)
  /\ response = NXDOMAIN
  /\ reads = <<>>

\* A meta query for a file kept as hello.txt asked for hello, hello.bin and hello.txt.
C14_WitnessRead ==
  /\ request = MetaHelloRequest
  /\ response.rcode = "NOERROR"
  /\ reads = <<HELLO, HELLO \o EXT_BIN, HELLO \o EXT_TXT>>

\* Names in the zone whose label is empty
WelcomeNames == {<<"l", "a", "b", ".">>, <<"L", "A", "B", ".">>}

\* Names in the zone whose label is not empty and whose first part does not
\* start with "chunk<digit>" and is not meta, or that have one or three parts
MisroutedNames ==
  UnroutableNames \cup MalformedIndexNames \cup {<<"x", "l", "a", "b", ".">>}

\* Names in the zone of two parts whose first part is "chunk" and a sign or an
\* underscore among the digits: not meta, and not chunk<digits>
SignedIndexNames == {p.req.qname : p \in SignedChunkProbes}

\* C15: a TXT query in the zone with an empty label is answered NOERROR with
\* the welcome text, whatever the storage holds; a TXT query in the zone whose
\* label is not empty and has not exactly two parts, or whose first part is
\* neither meta nor chunk<digits>, gets NXDOMAIN.
C15_WelcomeAndRouting ==
  request.qtype = "TXT" =>
    /\ request.qname \in WelcomeNames =>
         /\ response = [rcode |-> "NOERROR", rr |-> <<WELCOME>>]
         /\ reads = <<>>
    /\ request.qname \in MisroutedNames \cup SignedIndexNames => response = NXDOMAIN

\* What holds of C15: the welcome reply, and NXDOMAIN for every label above
\* but those whose index int() reads although it is not plain digits.
C15_ExceptSignedIndex ==
  request.qtype = "TXT" =>
    /\ request.qname \in WelcomeNames =>
         /\ response = [rcode |-> "NOERROR", rr |-> <<WELCOME>>]
         /\ reads = <<>>
    /\ request.qname \in MisroutedNames => response = NXDOMAIN

\* The zone name itself, in capitals, was asked of a storage that holds a file.
C15_Witness ==
  /\ request = [qname |-> <<"L", "A", "B", ".">>, qtype |-> "TXT"]
  /\ DOMAIN store # {}
  /\ response.rcode = "NOERROR"
  /\ response.rr = <<WELCOME>>

\* C16: resolve keeps nothing between calls and never changes the storage:
\* however the calls of the server threads interleave, every call that
\* returned gave the reply its request gets from a call that runs alone on the
\* same storage, the same request was never given two different replies, and
\* no step of any call changes the storage.
C16_Stateless ==
  /\ [][\A r \in served' \ served : r.reply = resolve(store, r.request)]_vars
  /\ [](\A a, b \in served : a.request = b.request => a.reply = b.reply)
  /\ [][store' = store]_vars

\* Two calls are under way at once, one past its read of the storage, while
\* an earlier call for a chunk of the same file has returned its answer.
C16_Witness ==
  /\ threads[1].at = "build"
  /\ threads[2].at = "read"
  /\ threads[1].asked # threads[2].asked
  /\ \E r \in served : r.request = threads[2].asked /\ r.reply.rcode = "NOERROR"

\* Meta queries whose raw name sanitizes to hello
HelloMetaRequests ==
  {MetaHelloRequest,
   TxtRequest(<<"M", "E", "T", "A", ".", "H", "e", "l", "l", "o", ".", "L", "A", "B", ".">>),
   TxtRequest(<<"m", "e", "t", "a", ".", "h", "e", "l", "+", "l", "o", ".", "l", "a", "b", ".">>)}

\* C17: for the name hello the file used is hello if it is there, else
\* hello.bin if it is there, else hello.txt, and no later candidate is looked
\* at once one is found; the meta handler and the chunk handler use the same
\* file, so the chunks=, sha256= and bytes= values of the meta reply are those
\* of the file whose chunks the chunk queries return.
C17_LookupPrecedence ==
  HasHello(store) =>
    LET used  == IF HELLO \in DOMAIN store THEN store[HELLO]
                 ELSE IF (HELLO \o EXT_BIN) \in DOMAIN store THEN store[HELLO \o EXT_BIN]
                 ELSE store[HELLO \o EXT_TXT]
        asked == IF HELLO \in DOMAIN store THEN <<HELLO>>
                 ELSE IF (HELLO \o EXT_BIN) \in DOMAIN store THEN <<HELLO, HELLO \o EXT_BIN>>
                 ELSE <<HELLO, HELLO \o EXT_BIN, HELLO \o EXT_TXT>>
        count == CeilDiv(Len(b64encode(used)), CHUNK_CHARS)
    IN  /\ request \in HelloMetaRequests =>
             /\ response = Answer(MetaText(count, sha256_hex(used), Len(used)))
             /\ reads = asked
        /\ \A p \in HelloChunkProbes :
             request = p.req =>
               /\ reads = asked
               /\ p.idx < count => response = Answer(ExpectedChunk(used, p.idx))
               /\ p.idx >= count => response = NXDOMAIN

\* hello.bin and hello.txt are both there with different bytes, hello is not:
\* chunk 0 served is that of hello.bin.
C17_Witness ==
  /\ DOMAIN store = {HELLO \o EXT_BIN, HELLO \o EXT_TXT}
  /\ store[HELLO \o EXT_BIN] # store[HELLO \o EXT_TXT]
  /\ request = TxtRequest(<<"C", "H", "U", "N", "K", "0", ".", "H", "E", "L", "L", "O", ".", "L", "A", "B", ".">>)
  /\ response = Answer(b64encode(store[HELLO \o EXT_BIN]))
  /\ reads = <<HELLO, HELLO \o EXT_BIN>>

\* The places of the raw name whose character, lowered, s_name keeps
KeptPlaces(r) ==
  {i \in 1..Len(r) : LowerChar(r[i]) \in Range(LOWER) \cup Range(DIGITS) \cup {"-", "_"}}

\* The k-th place kept, counting from the left
KeptPlace(r, k) ==
  CHOOSE i \in KeptPlaces(r) : Cardinality({j \in KeptPlaces(r) : j <= i}) = k

\* C18: s_name gives a result for every raw name; the result is the characters
\* of the raw name that are in a-z, 0-9, "-", "_" once lowered, each lowered,
\* in their order, and nothing else; s_name of the result is the result; two
\* meta queries, or two chunk queries, whose raw names s_name makes the same get
\* the same reply from the same storage.
C18_Sanitize ==
  /\ Len(sanitized) >= 1 =>
       /\ Len(sanitized[1]) = Cardinality(KeptPlaces(raw))
       /\ \A k \in 1..Len(sanitized[1]) :
            /\ sanitized[1][k] = LowerChar(raw[KeptPlace(raw, k)])
            /\ sanitized[1][k] \in Range(LOWER) \cup Range(DIGITS) \cup {"-", "_"}
  /\ Len(sanitized) = 2 => sanitized[2] = sanitized[1]
  /\ \A a, b \in served : a.reply = b.reply

\* "H+i" was sanitized to "hi" twice over, and meta.H+i.lab. and another raw
\* name for hi were both answered with the meta text of the file hi.
C18_Witness ==
  /\ raw = <<"H", "+", "i">>
  /\ sanitized = <<(<<"h", "i">>), (<<"h", "i">>)>>
  /\ Cardinality(served) = 2
  /\ \A r \in served : r.reply.rcode = "NOERROR" /\ StartsWith(r.reply.rr[1], <<"c", "h", "u", "n", "k", "s", "=", "1", ";">>)

\* C19: when the stored file is replaced or removed while the fetch runs, the
\* server reading the storage anew for every query, fetchf either ends with an
\* exception and writes nothing, or writes bytes whose length and digest are
\* the bytes= and sha256= values of the meta reply it got: one whole version
\* of the file, never chunks of two versions put together.
C19_NoTornFile ==
  /\ out_file.written =>
       /\ pc = "done"
       /\ replies[1] = Answer(MetaText(chunk_count, sha256_hex(out_file.data),
                                       Len(out_file.data)))
       /\ out_file.data \in ChurnFiles
  /\ pc = "done" => (out_file.written /\ err = "")
  /\ pc = "failed" => (out_file = NotWritten /\ err # "")

\* Chunks of two versions of the same length arrived and the digest check
\* ended the fetch.
C19_Witness ==
  /\ changes >= 1
  /\ pc = "failed"
  /\ err = "RuntimeError: sha256 mismatch"
  /\ Len(chunks) = 2
  /\ out_file = NotWritten

\* A whole version was written although the storage holds another one by then.
C19_WitnessWritten ==
  /\ changes >= 1
  /\ pc = "done"
  /\ Len(chunks) = 2
  /\ HasHello(store)
  /\ out_file.data # HelloFile(store)

\* fetchf has ended: the output written, or an exception
Ended == pc \in {"done", "failed"}

\* C20: every run of fetchf in which each query gets a reply or a timeout
\* ends, either with the output written and no exception or with an exception
\* and nothing written, and stays ended, after at most chunkCount + 1 queries,
\* chunkCount being the count fetchf reads from the meta reply. Only the meta
\* query is sent as long as no count is read, and when the meta query fails or
\* cannot be read. The count of the data model is unsigned; a forged meta
\* reply that declares a count below 0 is followed by no chunk query, as a
\* count of 0 is.
C20_Termination ==
  /\ <>Ended
  /\ [](pc = "done" => (out_file.written /\ err = "" /\ query = NoQuery /\ reply = NoReply))
  /\ [](pc = "failed" => (out_file = NotWritten /\ err # "" /\ query = NoQuery /\ reply = NoReply))
  /\ [][Ended => UNCHANGED <<pc, err, out_file, issued>>]_vars
  /\ [](chunk_count >= 0 => Len(issued) <= chunk_count + 1)
  /\ [](chunk_count < 0 => Len(issued) <= 1)
  /\ [](pc \in {"init", "meta"} => Len(issued) <= 1)

\* A fetch of a file of three chunks has ended after its fourth query, and a
\* fault was not needed for it.
C20_Witness ==
  /\ pc = "done"
  /\ faults = 0
  /\ chunk_count = 3
  /\ Len(issued) = 4

=============================================================================
